---- MODULE Spec2Model ----
(***************************************************************************)
(* A model of main.go: main and runRAGDemo, the linear RAG pipeline that   *)
(* issues six remote calls (store-create, file-upload, attach, search,     *)
(* list-models, chat-completion) and prints its progress.                  *)
(*                                                                         *)
(* The remote platform is the environment: every call either fails with a  *)
(* transport error or returns a response drawn from a small set.  The      *)
(* variable log is the observable trace of the run, in order: the remote   *)
(* calls with their arguments and results, the lines written to the        *)
(* console, and the moment the server finishes indexing the attached file. *)
(***************************************************************************)
EXTENDS Integers, Sequences, FiniteSets, TLC

VARIABLES
    pc,              \* position of main / runRAGDemo
    vectorStore,     \* main.go:35  the store handle returned by step 1
    file,            \* main.go:63  the file handle returned by step 2
    searchResults,   \* main.go:95  searchResults.Data
    contextBuilder,  \* main.go:116 the strings written to the builder, in order
    llmModel,        \* main.go:129
    err,             \* the error runRAGDemo returns: <<>> is nil, <<msg>> an error
    indexed,         \* server side: the attached file has been indexed
    log              \* calls, console writes and server events, in order

vars == <<pc, vectorStore, file, searchResults, contextBuilder, llmModel, err,
          indexed, log>>

----------------------------------------------------------------------------
(* Bounds of the model *)

\* longest result list the search call returns
MaxResults == 2
\* longest model list the list-models call returns
MaxModels == 2
\* most choices a chat-completion response carries
MaxChoices == 2

(* Program constants *)

\* main.go:99  MaxNumResults: llamastackclient.Int(3)
MaxNumResults == 3
\* main.go:160 MaxTokens: llamastackclient.Int(300)
MaxTokens == 300

----------------------------------------------------------------------------
(* Literals of the program *)

StoreName == "my-rag-store"
FileName == "ai_concepts.txt"
FileMime == "text/plain"
FilePurpose == "assistants"
\* the sample passage of main.go:47-57, by its first words
sampleContent == "Artificial Intelligence (AI) is a branch of computer science ..."
query == "What is machine learning and how does it relate to AI?"
SystemPrompt ==
    "You are a helpful AI assistant. Use the provided context to answer questions accurately and concisely."

CreatePrefix == "error creating vector store"
UploadPrefix == "error uploading file"
AttachPrefixBad == "error uploading file"
AttachPrefix == "error attaching file to vector store"
SearchPrefix == "error searching vector store"
ModelsPrefix == "error fetching models"
ChatPrefix == "error generating answer"
NoLLMError == "no LLM model available for generation"

\* the fixed order of the remote calls of runRAGDemo
PipelineOps ==
    <<"store-create", "file-upload", "attach", "search", "list-models",
      "chat-completion">>

----------------------------------------------------------------------------
(* What the remote platform may answer *)

TransportErrs == {"connection refused", "500 Internal Server Error"}

StoreHandles ==
    { [ID |-> "vs_1", Name |-> "my-rag-store"],
      [ID |-> "vs_2", Name |-> "renamed-store"] }

FileHandles ==
    { [ID |-> "file-1", Filename |-> "ai_concepts.txt"],
      [ID |-> "file-2", Filename |-> "upload.bin"] }

\* a chunk: its text and its score in ten-thousandths
Chunks ==
    { [Content |-> "Machine Learning is a subset of AI", Score |-> 8731],
      [Content |-> "Deep Learning uses neural networks", Score |-> 10042] }

ModelEntries ==
    { [ModelType |-> "embedding", Identifier |-> "all-MiniLM"],
      [ModelType |-> "llm", Identifier |-> "llama3.2:3b"],
      [ModelType |-> "llm", Identifier |-> "granite"],
      [ModelType |-> "llm", Identifier |-> ""] }

AnswerTexts == {"", "Machine learning is a subset of AI."}

SeqsUpTo(S, n) == UNION { [1..k -> S] : k \in 0..n }

\* a chat response: Choices may be nil (hasChoices = FALSE)
ChatResponses ==
    { [hasChoices |-> FALSE, Choices |-> <<>>] } \cup
    { [hasChoices |-> TRUE, Choices |-> c] :
        c \in SeqsUpTo([Content : AnswerTexts], MaxChoices) }

NoErr == <<>>
NoHandle == [ID |-> "", Name |-> ""]
NoFile == [ID |-> "", Filename |-> ""]

----------------------------------------------------------------------------
(* The pure parts of runRAGDemo *)

\* fmt.Errorf("<prefix>: %v", err)
Errorf(prefix, e) == <<prefix \o ": " \o e>>

\* the digits of the fraction of "%.4f", zero-padded
Pad4(n) ==
    IF n < 10 THEN "000" \o ToString(n)
    ELSE IF n < 100 THEN "00" \o ToString(n)
    ELSE IF n < 1000 THEN "0" \o ToString(n)
    ELSE ToString(n)

\* fmt.Sprintf("%.4f", score) of a score given in ten-thousandths
Fmt4(s) == ToString(s \div 10000) \o "." \o Pad4(s % 10000)

\* a remote call and its outcome
Call(op, args, ok, ret) ==
    [kind |-> "call", op |-> op, args |-> args, ok |-> ok, ret |-> ret]

\* fmt.Println(s)
Println(s) == [kind |-> "print", fmt |-> s, args |-> <<>>, text |-> s \o "\n"]

\* fmt.Printf(f, args...), given the rendered text
Printf(f, args, text) == [kind |-> "print", fmt |-> f, args |-> args, text |-> text]

\* main.go:106-110  the lines printed for the chunks from the i-th on
RECURSIVE PrintChunks(_, _)
PrintChunks(data, i) ==
    IF i > Len(data) THEN <<>>
    ELSE << Printf("\n--- Chunk %d ---\n", <<ToString(i)>>,
                   "\n--- Chunk " \o ToString(i) \o " ---\n"),
            Printf("Content: %s\n", <<data[i].Content>>,
                   "Content: " \o data[i].Content \o "\n"),
            Printf("Score: %.4f\n", <<Fmt4(data[i].Score)>>,
                   "Score: " \o Fmt4(data[i].Score) \o "\n") >>
         \o PrintChunks(data, i + 1)

\* main.go:118-120  the numbered lines written for the chunks from the i-th on
RECURSIVE ContextLines(_, _)
ContextLines(data, i) ==
    IF i > Len(data) THEN <<>>
    ELSE <<ToString(i) \o ". " \o data[i].Content \o "\n">>
         \o ContextLines(data, i + 1)

\* a slip: the loop index is written instead of i+1
BuildContextZeroBased(data, q) ==
    <<"Based on the following information:\n\n">>
    \o [i \in 1..Len(data) |-> ToString(i - 1) \o ". " \o data[i].Content \o "\n"]
    \o <<"\nPlease answer the question: " \o q>>

\* main.go:116-121  the WriteString calls on contextBuilder, in order
BuildContext(data, q) ==
    <<"Based on the following information:\n\n">>
    \o ContextLines(data, 1)
    \o <<"\nPlease answer the question: " \o q>>

\* strings.Builder.String(): the writes, concatenated
RECURSIVE BuilderString(_)
BuilderString(w) ==
    IF w = <<>> THEN "" ELSE w[1] \o BuilderString(Tail(w))

\* a slip: the type of the entry is not looked at
SelectLLMAnyType(models) ==
    IF models = <<>> THEN "" ELSE models[1].Identifier

\* main.go:129-135  the identifier of the first "llm" entry, "" when the loop
\* ends without one
RECURSIVE SelectLLM(_)
SelectLLM(models) ==
    IF models = <<>> THEN ""
    ELSE IF models[1].ModelType = "llm" THEN models[1].Identifier
    ELSE SelectLLM(Tail(models))

\* a slip: the last choice is shown
AnswerLinesLast(response) ==
    IF response.hasChoices /\ Len(response.Choices) > 0
          /\ response.Choices[Len(response.Choices)].Content # ""
    THEN << Printf("\nEnhanced Answer:\n%s\n",
                   <<response.Choices[Len(response.Choices)].Content>>,
                   "\nEnhanced Answer:\n"
                     \o response.Choices[Len(response.Choices)].Content \o "\n") >>
    ELSE <<>>

\* main.go:168-175  what is printed for a chat response
AnswerLines(response) ==
    IF response.hasChoices /\ Len(response.Choices) > 0
          /\ response.Choices[1].Content # ""
    THEN << Printf("\nEnhanced Answer:\n%s\n", <<response.Choices[1].Content>>,
                   "\nEnhanced Answer:\n" \o response.Choices[1].Content \o "\n") >>
    ELSE <<>>

----------------------------------------------------------------------------
(* The run *)

Init ==
    /\ pc = "main"
    /\ vectorStore = NoHandle
    /\ file = NoFile
    /\ searchResults = <<>>
    /\ contextBuilder = <<>>
    /\ llmModel = ""
    /\ err = NoErr
    /\ indexed = FALSE
    /\ log = <<>>

\* main.go:12-21  the client is built, the banner printed, runRAGDemo entered
MainStart ==
    /\ pc = "main"
    /\ log' = log \o <<Println("=== LlamaStack RAG Demo ===\n")>>
    /\ pc' = "step1"
    /\ UNCHANGED <<vectorStore, file, searchResults, contextBuilder, llmModel,
                   err, indexed>>

\* main.go:33-41
CreateVectorStore ==
    /\ pc = "step1"
    /\ \/ \E e \in TransportErrs :
            /\ log' = log \o
                 << Println("=== Step 1: Creating Vector Store ==="),
                    Call("store-create", [name |-> StoreName], FALSE, e) >>
            /\ err' = Errorf(CreatePrefix, e)
            /\ pc' = "ret"
            /\ UNCHANGED vectorStore
       \/ \E h \in StoreHandles :
            /\ log' = log \o
                 << Println("=== Step 1: Creating Vector Store ==="),
                    Call("store-create", [name |-> StoreName], TRUE, h),
                    Printf("Created vector store: %s (ID: %s)\n", <<h.Name, h.ID>>,
                           "Created vector store: " \o h.Name \o " (ID: " \o h.ID
                             \o ")\n") >>
            /\ vectorStore' = h
            /\ pc' = "step2"
            /\ UNCHANGED err
    /\ UNCHANGED <<file, searchResults, contextBuilder, llmModel, indexed>>

UploadArgs ==
    [content |-> sampleContent, filename |-> FileName, mime |-> FileMime,
     purpose |-> FilePurpose]

\* a slip: a failed upload is tried again
UploadFileRetry ==
    /\ pc = "step2"
    /\ Len(log) < 12
    /\ \/ \E e \in TransportErrs :
            /\ log' = log \o << Call("file-upload", UploadArgs, FALSE, e) >>
            /\ UNCHANGED <<pc, err, file>>
       \/ \E f \in FileHandles :
            /\ log' = log \o
                 << Println("\n=== Step 2: Uploading Sample File ==="),
                    Call("file-upload", UploadArgs, TRUE, f),
                    Printf("Uploaded file: %s (ID: %s)\n", <<f.Filename, f.ID>>,
                           "Uploaded file: " \o f.Filename \o " (ID: " \o f.ID
                             \o ")\n") >>
            /\ file' = f
            /\ pc' = "step3"
            /\ UNCHANGED err
    /\ UNCHANGED <<vectorStore, searchResults, contextBuilder, llmModel, indexed>>

\* main.go:43-70
UploadFile ==
    /\ pc = "step2"
    /\ \/ \E e \in TransportErrs :
            /\ log' = log \o
                 << Println("\n=== Step 2: Uploading Sample File ==="),
                    Call("file-upload", UploadArgs, FALSE, e) >>
            /\ err' = Errorf(UploadPrefix, e)
            /\ pc' = "ret"
            /\ UNCHANGED file
       \/ \E f \in FileHandles :
            /\ log' = log \o
                 << Println("\n=== Step 2: Uploading Sample File ==="),
                    Call("file-upload", UploadArgs, TRUE, f),
                    Printf("Uploaded file: %s (ID: %s)\n", <<f.Filename, f.ID>>,
                           "Uploaded file: " \o f.Filename \o " (ID: " \o f.ID
                             \o ")\n") >>
            /\ file' = f
            /\ pc' = "step3"
            /\ UNCHANGED err
    /\ UNCHANGED <<vectorStore, searchResults, contextBuilder, llmModel, indexed>>

\* a slip: the store is named by its display name, not by its identifier
AttachArgsByName(vs, f) == [store |-> vs.Name, file |-> f.ID]

\* main.go:76-78  the attach call is given the store's and the file's identifier
AttachArgs(vs, f) == [store |-> vs.ID, file |-> f.ID]

\* a slip: the success line is printed before the error is looked at
AttachFilePrintFirst ==
    /\ pc = "step3"
    /\ \/ \E e \in TransportErrs :
            /\ log' = log \o
                 << Println("\n=== Step 3: Attaching File to Vector Store ==="),
                    Call("attach", AttachArgs(vectorStore, file), FALSE, e),
                    Printf("File attached to vector store successfully\n", <<>>,
                           "File attached to vector store successfully\n") >>
            /\ err' = Errorf(AttachPrefix, e)
            /\ pc' = "ret"
       \/ /\ log' = log \o
                 << Println("\n=== Step 3: Attaching File to Vector Store ==="),
                    Call("attach", AttachArgs(vectorStore, file), TRUE, "attached"),
                    Printf("File attached to vector store successfully\n", <<>>,
                           "File attached to vector store successfully\n"),
                    Println("Waiting for file processing to complete...") >>
          /\ pc' = "step4"
          /\ UNCHANGED err
    /\ UNCHANGED <<vectorStore, file, searchResults, contextBuilder, llmModel,
                   indexed>>

\* main.go:72-86
AttachFile ==
    /\ pc = "step3"
    /\ \/ \E e \in TransportErrs :
            /\ log' = log \o
                 << Println("\n=== Step 3: Attaching File to Vector Store ==="),
                    Call("attach", AttachArgs(vectorStore, file), FALSE, e) >>
            /\ err' = Errorf(AttachPrefix, e)
            /\ pc' = "ret"
       \/ /\ log' = log \o
                 << Println("\n=== Step 3: Attaching File to Vector Store ==="),
                    Call("attach", AttachArgs(vectorStore, file), TRUE, "attached"),
                    Printf("File attached to vector store successfully\n", <<>>,
                           "File attached to vector store successfully\n"),
                    Println("Waiting for file processing to complete...") >>
          /\ pc' = "step4"
          /\ UNCHANGED err
    /\ UNCHANGED <<vectorStore, file, searchResults, contextBuilder, llmModel,
                   indexed>>

\* the attach call has returned successfully
Attached ==
    \E i \in 1..Len(log) :
        log[i].kind = "call" /\ log[i].op = "attach" /\ log[i].ok

\* main.go:84-86  the server processes the attached file on its own time; the
\* program neither waits for it nor polls
ServerIndex ==
    /\ Attached
    /\ ~indexed
    /\ indexed' = TRUE
    /\ log' = log \o <<[kind |-> "server", op |-> "indexed"]>>
    /\ UNCHANGED <<pc, vectorStore, file, searchResults, contextBuilder, llmModel,
                   err>>

\* what a successful search may return: nothing before the file is indexed
SearchAnswers ==
    IF indexed THEN SeqsUpTo(Chunks, MaxResults) ELSE {<<>>}

SearchArgs ==
    [store |-> vectorStore.ID, query |-> query, maxNumResults |-> MaxNumResults]

\* a change: the file's status is polled before the search
SearchVectorStorePolling ==
    /\ pc = "step4"
    /\ \/ \E e \in TransportErrs :
            /\ log' = log \o
                 << Println("\n=== Step 4: Running RAG Query ==="),
                    Printf("Query: %s\n", <<query>>, "Query: " \o query \o "\n"),
                    Call("file-status", AttachArgs(vectorStore, file), TRUE, indexed),
                    Call("search", SearchArgs, FALSE, e) >>
            /\ err' = Errorf(SearchPrefix, e)
            /\ pc' = "ret"
            /\ UNCHANGED searchResults
       \/ \E data \in SearchAnswers :
            /\ log' = log \o
                 << Println("\n=== Step 4: Running RAG Query ==="),
                    Printf("Query: %s\n", <<query>>, "Query: " \o query \o "\n"),
                    Call("file-status", AttachArgs(vectorStore, file), TRUE, indexed),
                    Call("search", SearchArgs, TRUE, data),
                    Printf("\nFound %d relevant chunks:\n", <<ToString(Len(data))>>,
                           "\nFound " \o ToString(Len(data))
                             \o " relevant chunks:\n") >>
                 \o PrintChunks(data, 1)
            /\ searchResults' = data
            /\ pc' = "step5"
            /\ UNCHANGED err
    /\ UNCHANGED <<vectorStore, file, contextBuilder, llmModel, indexed>>

\* main.go:88-110
SearchVectorStore ==
    /\ pc = "step4"
    /\ \/ \E e \in TransportErrs :
            /\ log' = log \o
                 << Println("\n=== Step 4: Running RAG Query ==="),
                    Printf("Query: %s\n", <<query>>, "Query: " \o query \o "\n"),
                    Call("search", SearchArgs, FALSE, e) >>
            /\ err' = Errorf(SearchPrefix, e)
            /\ pc' = "ret"
            /\ UNCHANGED searchResults
       \/ \E data \in SearchAnswers :
            /\ log' = log \o
                 << Println("\n=== Step 4: Running RAG Query ==="),
                    Printf("Query: %s\n", <<query>>, "Query: " \o query \o "\n"),
                    Call("search", SearchArgs, TRUE, data),
                    Printf("\nFound %d relevant chunks:\n", <<ToString(Len(data))>>,
                           "\nFound " \o ToString(Len(data))
                             \o " relevant chunks:\n") >>
                 \o PrintChunks(data, 1)
            /\ searchResults' = data
            /\ pc' = "step5"
            /\ UNCHANGED err
    /\ UNCHANGED <<vectorStore, file, contextBuilder, llmModel, indexed>>

\* main.go:112-139  the context is built, the models are listed, one is chosen
ListModels ==
    /\ pc = "step5"
    /\ contextBuilder' = BuildContext(searchResults, query)
    /\ \/ \E e \in TransportErrs :
            /\ log' = log \o
                 << Println("\n=== Step 5: Generating Enhanced Answer ==="),
                    Call("list-models", <<>>, FALSE, e) >>
            /\ err' = Errorf(ModelsPrefix, e)
            /\ pc' = "ret"
            /\ UNCHANGED llmModel
       \/ \E models \in SeqsUpTo(ModelEntries, MaxModels) :
            /\ log' = log \o
                 << Println("\n=== Step 5: Generating Enhanced Answer ==="),
                    Call("list-models", <<>>, TRUE, models) >>
            /\ llmModel' = SelectLLM(models)
            /\ IF SelectLLM(models) = ""
               THEN err' = <<NoLLMError>> /\ pc' = "ret"
               ELSE err' = err /\ pc' = "chat"
    /\ UNCHANGED <<vectorStore, file, searchResults, indexed>>

\* main.go:142-161  the request of the chat completion
ChatArgs ==
    [system |-> SystemPrompt, user |-> BuilderString(contextBuilder),
     model |-> llmModel, maxTokens |-> MaxTokens]

\* main.go:141-177
ChatCompletion ==
    /\ pc = "chat"
    /\ \/ \E e \in TransportErrs :
            /\ log' = log \o << Call("chat-completion", ChatArgs, FALSE, e) >>
            /\ err' = Errorf(ChatPrefix, e)
       \/ \E response \in ChatResponses :
            /\ log' = log \o << Call("chat-completion", ChatArgs, TRUE, response) >>
                 \o AnswerLines(response)
            /\ err' = NoErr
    /\ pc' = "ret"
    /\ UNCHANGED <<vectorStore, file, searchResults, contextBuilder, llmModel,
                   indexed>>

\* a slip: the return after the failure report is missing
MainReturnFallThrough ==
    /\ pc = "ret"
    /\ log' = log \o
         (IF err # NoErr
          THEN << Printf("RAG Demo failed: %v\n", <<err[1]>>,
                         "RAG Demo failed: " \o err[1] \o "\n") >>
          ELSE <<>>)
         \o << Println("\n=== Demo Complete! ===") >>
    /\ pc' = "exit"
    /\ UNCHANGED <<vectorStore, file, searchResults, contextBuilder, llmModel,
                   err, indexed>>

\* main.go:21-27  runRAGDemo has returned
MainReturn ==
    /\ pc = "ret"
    /\ log' = log \o
         (IF err # NoErr
          THEN << Printf("RAG Demo failed: %v\n", <<err[1]>>,
                         "RAG Demo failed: " \o err[1] \o "\n") >>
          ELSE << Println("\n=== Demo Complete! ===") >>)
    /\ pc' = "exit"
    /\ UNCHANGED <<vectorStore, file, searchResults, contextBuilder, llmModel,
                   err, indexed>>

\* the steps of the program
Program ==
    \/ MainStart
    \/ CreateVectorStore
    \/ UploadFile
    \/ AttachFile
    \/ SearchVectorStore
    \/ ListModels
    \/ ChatCompletion
    \/ MainReturn

Next == Program \/ ServerIndex

Spec == Init /\ [][Next]_vars

\* every remote call returns and the program runs on: its steps are taken
FairSpec == Spec /\ WF_vars(Program)

----------------------------------------------------------------------------
(* Reading the trace *)

Indices(kind) ==
    SelectSeq([i \in 1..Len(log) |-> i], LAMBDA i : log[i].kind = kind)

\* the positions in log of the remote calls and of the console writes
CallPos == Indices("call")
PrintPos == Indices("print")

\* the remote calls issued so far, and the console writes so far, in order
Calls == [k \in 1..Len(CallPos) |-> log[CallPos[k]]]
Prints == [k \in 1..Len(PrintPos) |-> log[PrintPos[k]]]

PrintsOf(f) == SelectSeq(Prints, LAMBDA e : e.fmt = f)

\* runRAGDemo has returned to main
Returned == pc \in {"ret", "exit"}

HasLLM(models) == \E i \in 1..Len(models) : models[i].ModelType = "llm"

FirstLLM(models) ==
    models[CHOOSE i \in 1..Len(models) :
                /\ models[i].ModelType = "llm"
                /\ \A j \in 1..(i - 1) : models[j].ModelType # "llm"]

FailedFmt == "RAG Demo failed: %v\n"
CompleteFmt == "\n=== Demo Complete! ==="
AnswerFmt == "\nEnhanced Answer:\n%s\n"

----------------------------------------------------------------------------
(* The claims *)

StepPrefix ==
    <<"error creating vector store", "error uploading file",
      "error attaching file to vector store", "error searching vector store",
      "error fetching models", "error generating answer">>

\* C2: when the k-th call fails (all earlier ones having succeeded), it is the
\* last call ever issued, runRAGDemo has returned, and the error it returned
\* is that step's fixed prefix followed by the underlying error.
C2_FailureAborts ==
    \A k \in 1..Len(Calls) :
        ~Calls[k].ok =>
            /\ k <= 6
            /\ Calls[k].op = PipelineOps[k]
            /\ \A j \in 1..(k - 1) : Calls[j].ok
            /\ Len(Calls) = k
            /\ Returned
            /\ err = <<StepPrefix[k] \o ": " \o Calls[k].ret>>

C2_Witness ==
    /\ pc = "exit"
    /\ Len(Calls) = 3
    /\ ~Calls[3].ok
    /\ err = <<"error attaching file to vector store: connection refused">>

\* C3: when list-models succeeds with a list that has no "llm" entry (the
\* empty list included), runRAGDemo has returned the "no LLM model available"
\* error and no chat-completion call is ever made.
C3_NoLLMFails ==
    \A k \in 1..Len(Calls) :
        (Calls[k].op = "list-models" /\ Calls[k].ok /\ ~HasLLM(Calls[k].ret)) =>
            /\ Returned
            /\ err = <<"no LLM model available for generation">>
            /\ Len(Calls) = k
            /\ \A j \in 1..Len(Calls) : Calls[j].op # "chat-completion"

C3_Witness ==
    /\ pc = "exit"
    /\ Len(Calls) = 5
    /\ Calls[5].ok
    /\ Len(Calls[5].ret) = 2
    /\ ~HasLLM(Calls[5].ret)
    /\ Len(PrintsOf(FailedFmt)) = 1

\* C4: whenever the list returned by list-models has an "llm" entry, the run
\* does not fail with "no LLM model available", and the chat-completion call
\* is made with the identifier of the first "llm" entry of the list.
C4_FirstLLMSelected ==
    \A k \in 1..Len(Calls) :
        (Calls[k].op = "list-models" /\ Calls[k].ok /\ HasLLM(Calls[k].ret)) =>
            /\ err # <<NoLLMError>>
            /\ Returned => Len(Calls) > k
            /\ Len(Calls) > k =>
                 /\ Calls[k + 1].op = "chat-completion"
                 /\ Calls[k + 1].args.model = FirstLLM(Calls[k].ret).Identifier

NumberedLine(i, content) == ToString(i) \o ". " \o content \o "\n"

RECURSIVE Joined(_, _)
Joined(data, i) ==
    IF i = 0 THEN "" ELSE Joined(data, i - 1) \o NumberedLine(i, data[i].Content)

\* C5: for the N entries the search returned, the context written in step 5
\* is the heading, then exactly N numbered lines, the i-th numbered i and
\* carrying the i-th entry's content, then the query that was sent to the
\* search call; the user message of the chat-completion call is that text.
C5_PromptContext ==
    \A k \in 1..Len(Calls) :
        (Calls[k].op = "list-models") =>
            LET data == Calls[k - 1].ret
                N == Len(data)
            IN  /\ Calls[k - 1].op = "search" /\ Calls[k - 1].ok
                /\ Len(contextBuilder) = N + 2
                /\ contextBuilder[1] = "Based on the following information:\n\n"
                /\ \A i \in 1..N :
                     contextBuilder[i + 1] = NumberedLine(i, data[i].Content)
                /\ contextBuilder[N + 2] =
                     "\nPlease answer the question: " \o Calls[k - 1].args.query
                /\ Len(Calls) > k =>
                     Calls[k + 1].args.user =
                        "Based on the following information:\n\n"
                        \o Joined(data, N)
                        \o "\nPlease answer the question: "
                        \o Calls[k - 1].args.query

C5_Witness ==
    /\ Len(Calls) = 6
    /\ Calls[6].op = "chat-completion"
    /\ Len(Calls[4].ret) = 2
    /\ Calls[4].ret[1] # Calls[4].ret[2]
    /\ Len(contextBuilder) = 4

\* no first choice with non-empty text
NoAnswer(response) ==
    \/ ~response.hasChoices
    \/ Len(response.Choices) = 0
    \/ response.Choices[1].Content = ""

\* C6: when chat-completion succeeds, runRAGDemo returns nil; if the response
\* has no choices or its first choice has empty text, no "Enhanced Answer" is
\* printed and the run ends with the completion banner and no failure report;
\* otherwise exactly the first choice's text is printed as the Enhanced Answer.
C6_AnswerDisplay ==
    \A k \in 1..Len(Calls) :
        (Calls[k].op = "chat-completion" /\ Calls[k].ok) =>
            /\ Returned
            /\ err = NoErr
            /\ IF NoAnswer(Calls[k].ret)
               THEN /\ PrintsOf(AnswerFmt) = <<>>
                    /\ pc = "exit" =>
                         /\ Prints[Len(Prints)].fmt = CompleteFmt
                         /\ PrintsOf(FailedFmt) = <<>>
               ELSE /\ Len(PrintsOf(AnswerFmt)) = 1
                    /\ PrintsOf(AnswerFmt)[1].args = <<Calls[k].ret.Choices[1].Content>>
                    /\ PrintsOf(AnswerFmt)[1].text =
                         "\nEnhanced Answer:\n" \o Calls[k].ret.Choices[1].Content
                           \o "\n"

C6_Witness ==
    /\ pc = "exit"
    /\ Len(Calls) = 6
    /\ Calls[6].ok
    /\ Len(Calls[6].ret.Choices) = 2
    /\ Calls[6].ret.Choices[1].Content = ""
    /\ Calls[6].ret.Choices[2].Content # ""
    /\ PrintsOf(AnswerFmt) = <<>>
    /\ Prints[Len(Prints)].fmt = CompleteFmt

\* C7: the calls issued are always a prefix of the fixed six-call sequence:
\* none is repeated and none other (a retry, a cleanup) is ever issued.
C7_CallsArePrefix ==
    /\ Len(Calls) <= 6
    /\ \A k \in 1..Len(Calls) : Calls[k].op = PipelineOps[k]

C7_Witness ==
    /\ pc = "exit"
    /\ Len(Calls) = 4
    /\ ~Calls[4].ok
    /\ Calls[1].ok /\ Calls[2].ok /\ Calls[3].ok

\* the one report main prints for the way runRAGDemo returned
OneOutcome ==
    IF err # NoErr
    THEN /\ Len(PrintsOf(FailedFmt)) = 1
         /\ PrintsOf(FailedFmt)[1].text = "RAG Demo failed: " \o err[1] \o "\n"
         /\ PrintsOf(CompleteFmt) = <<>>
    ELSE /\ Len(PrintsOf(CompleteFmt)) = 1
         /\ PrintsOf(FailedFmt) = <<>>

\* a step failed: a call failed, or no model could be chosen
StepFailed ==
    \/ \E k \in 1..Len(Calls) : ~Calls[k].ok
    \/ Len(Calls) < 6

\* C8: every run of main ends, and at its end exactly one outcome has been
\* reported: the "RAG Demo failed" line with the error and no banner when a
\* step failed, the "Demo Complete" banner and no failure line otherwise.
C8_MainReportsOneOutcome ==
    /\ <>(pc = "exit")
    /\ [](pc = "exit" => (OneOutcome /\ (StepFailed <=> err # NoErr)))

C8_Witness ==
    /\ pc = "exit"
    /\ err # NoErr
    /\ Len(PrintsOf(FailedFmt)) = 1
    /\ PrintsOf(CompleteFmt) = <<>>

\* the search call was issued before the server finished indexing
SearchBeforeIndexing ==
    /\ Len(Calls) >= 4
    /\ \A i \in 1..CallPos[4] : log[i].kind # "server"

\* C9: the call issued after a successful attach is the search, nothing in
\* between; and when the search runs before indexing completes and returns
\* an empty result set, the run does not fail there: it goes on to
\* list-models and to chat-completion with a prompt of no numbered lines.
C9_SearchRacesIndexing ==
    /\ \A k \in 1..Len(Calls) :
         (Calls[k].op = "attach" /\ Calls[k].ok /\ Len(Calls) > k) =>
            Calls[k + 1].op = "search"
    /\ (SearchBeforeIndexing /\ Calls[4].ok /\ Calls[4].ret = <<>>) =>
         /\ Len(Calls) = 4 => (pc = "step5" /\ err = NoErr)
         /\ Len(Calls) >= 5 =>
              /\ Calls[5].op = "list-models"
              /\ Len(contextBuilder) = 2
         /\ Len(Calls) >= 6 =>
              /\ Calls[6].op = "chat-completion"
              /\ Calls[6].args.user =
                   "Based on the following information:\n\n"
                   \o "\nPlease answer the question: " \o query

C9_Witness ==
    /\ pc = "exit"
    /\ err = NoErr
    /\ SearchBeforeIndexing
    /\ ~indexed
    /\ Calls[4].ok /\ Calls[4].ret = <<>>
    /\ Len(Calls) = 6
    /\ Calls[6].ok
    /\ Len(contextBuilder) = 2

SuccessFmts ==
    <<"Created vector store: %s (ID: %s)\n", "Uploaded file: %s (ID: %s)\n",
      "File attached to vector store successfully\n",
      "\nFound %d relevant chunks:\n">>

\* the positions in log of the success lines printed so far
SuccessPos ==
    SelectSeq(PrintPos,
              LAMBDA i : \E s \in 1..4 : log[i].fmt = SuccessFmts[s])

\* how many of the first four calls have returned successfully
Succeeded == Cardinality({k \in 1..Len(Calls) : k <= 4 /\ Calls[k].ok})

\* C10: the success lines printed are exactly those of the steps (1..4) whose
\* call returned successfully, in step order, each after its own call and
\* before the next call is issued.
C10_ProgressMatchesCalls ==
    /\ Len(SuccessPos) = Succeeded
    /\ \A s \in 1..Len(SuccessPos) :
         /\ log[SuccessPos[s]].fmt = SuccessFmts[s]
         /\ Calls[s].ok
         /\ CallPos[s] < SuccessPos[s]
         /\ Len(Calls) > s => SuccessPos[s] < CallPos[s + 1]

C10_Witness ==
    /\ pc = "exit"
    /\ Len(Calls) = 3
    /\ ~Calls[3].ok
    /\ Len(SuccessPos) = 2
    /\ PrintsOf("File attached to vector store successfully\n") = <<>>

====
